---- MODULE Spec2Model ----
(***************************************************************************)
(* A model of the reconciliation loop of the ReplicaSet controller         *)
(* (pkg/controller/replicaset/replica_set.go) together with the work       *)
(* queue, the expectations ledger and the pod informer it relies on, and   *)
(* of the kubelet's per-pod worker harness (podWorkers).                    *)
(***************************************************************************)
EXTENDS Integers, Sequences, FiniteSets, TLC

\* ------------------------------------------------------------------ bounds
\* The largest Spec.Replicas a ReplicaSet of the model asks for.
MaxReplicas == 2
\* The number of pod identities the API server of the model can hand out.
MaxPods == 2
\* The burstReplicas argument NewReplicaSetController is given.
burstReplicas == 1
MaxUpdates == 4
\* The creation timestamps of the ReplicaSets are 1..MaxTime.
MaxTime == 2
\* A pod status lists at most MaxStatuses container statuses, with exit codes
\* 0..MaxExit.
MaxStatuses == 2
MaxExit == 1
\* The values of openid's maxRetrial are 0..MaxRetrials (the package sets 5,
\* its test 3).
MaxRetrials == 5

Keys == {"rs1", "rs2"}
Workers == {"w1", "w2"}
UIDs == {"u1", "u2"}

Min(a, b) == IF a < b THEN a ELSE b
Max(a, b) == IF a > b THEN a ELSE b

VARIABLES
  wq,         \* the work queue: [queue, dirty, processing]
  exp,        \* the expectations ledger, one record per key
  rsStore,    \* the ReplicaSet store: per key, whether it exists, its
              \* Spec.Replicas, its CreationTimestamp and the pods whose labels
              \* its selector matches
  podApi,     \* each pod's state at the API server
  podStore,   \* each pod's state in the controller's pod store
  notify,     \* the pod event whose handler the informer has still to call
  wk,         \* each worker goroutine: its position in worker() and its locals
  podRank,    \* each pod's stage: 0 unscheduled, 1 scheduled and pending,
              \* 2 running and not ready, 3 running and ready
  initActive, \* the number of active pods when the controller started
  faultyStore, \* whether the ReplicaSet store of this run can fail a lookup (the
              \* in-memory cache NewReplicaSetController builds never does)
  run,        \* Run(): "running", "stopped" once stopCh is closed, "shutdown"
              \* once Run has shut the work queue down
  hist        \* a history of the run, kept when on is set: per pod, the
              \* DeletionObserved calls the pod event handlers made for it
              \* (once, or more than once), and whether a DeletePod has failed

\* The kubelet's podWorkers.
VARIABLES
  podUpdates, \* per UID, the pod's channel (an index into chans), 0 for none
  isWorking,  \* per UID, whether an update has been handed to a goroutine
  lastUndeliveredWorkUpdate, \* per UID, the update that waits, 0 for none
  chans,      \* per UID, the channels made for it, each with its managePodLoop
              \* goroutine: [buf, closed, g, work]
  sent,       \* per UID, the number of UpdatePod calls: the n-th update is n
  superseded, \* per UID, the updates replaced while they waited
  synced,     \* per UID, the updates passed to syncPodFn, in order
  dropped,    \* per UID, the updates whose iteration ended on a docker cache
              \* error, before syncPodFn
  fault       \* "none", or how a channel send went wrong: "blocked", "panic"

\* Functions and constructors checked on their own.
VARIABLES
  restart,    \* a call of ShouldContainerBeRestarted: its inputs and its result
  maxRetrial, \* openid's package variable maxRetrial
  oidc,       \* a call of NewOpenID: its position, its locals and its result
  chanWorkers \* the podWorkers of pkg/kubelet/pod_workers.go: [podUpdates, chans,
              \* sent], the channel of each UID (an index into chans, 0 for
              \* none), the channels made for each UID, each with its
              \* managePodLoop goroutine [buf, closed, g], and the number of
              \* UpdatePod calls for each UID

\* The pods of a run: the identities its API server knows.
Pods == DOMAIN podApi

fnVars == <<restart, maxRetrial, oidc, chanWorkers>>

pwVars == <<podUpdates, isWorking, lastUndeliveredWorkUpdate, chans, sent, superseded,
            synced, dropped, fault>>

vars == <<wq, exp, rsStore, podApi, podStore, notify, wk, podRank, initActive, hist,
            faultyStore, run, pwVars, fnVars>>

\* ------------------------------------------------------- the work queue
\* An Add that appends without looking at the dirty set.
QAddAlways(q, k) == [q EXCEPT !.dirty = @ \cup {k}, !.queue = Append(@, k)]

\* Add: nothing for a key already dirty, only the dirty mark for a key being
\* processed, otherwise the dirty mark and a place in the queue.
QAdd(q, k) ==
  IF k \in q.dirty THEN q
  ELSE IF k \in q.processing THEN [q EXCEPT !.dirty = @ \cup {k}]
  ELSE [q EXCEPT !.dirty = @ \cup {k}, !.queue = Append(@, k)]

QGet(q) ==
  [queue |-> Tail(q.queue),
   dirty |-> q.dirty \ {Head(q.queue)},
   processing |-> q.processing \cup {Head(q.queue)}]

QDone(q, k) ==
  IF k \in q.dirty
  THEN [q EXCEPT !.processing = @ \ {k}, !.queue = Append(@, k)]
  ELSE [q EXCEPT !.processing = @ \ {k}]

\* ------------------------------------------------ the expectations ledger
NoExp == [has |-> FALSE, add |-> 0, del |-> 0, expired |-> FALSE]

ExpectCreations(e, k, n) ==
  [e EXCEPT ![k] = [has |-> TRUE, add |-> n, del |-> 0, expired |-> FALSE]]

ExpectDeletions(e, k, n) ==
  [e EXCEPT ![k] = [has |-> TRUE, add |-> 0, del |-> n, expired |-> FALSE]]

CreationObserved(e, k) ==
  IF e[k].has THEN [e EXCEPT ![k].add = Max(@ - 1, 0)] ELSE e

\* A DeletionObserved that counts below zero.
DeletionObservedNoFloor(e, k) ==
  IF e[k].has THEN [e EXCEPT ![k].del = @ - 1] ELSE e

DeletionObserved(e, k) ==
  IF e[k].has THEN [e EXCEPT ![k].del = Max(@ - 1, 0)] ELSE e

\* A SatisfiedExpectations that never lets a record expire.
SatisfiedIgnoresExpiry(e, k) ==
  \/ ~e[k].has
  \/ (e[k].add <= 0 /\ e[k].del <= 0)

SatisfiedExpectations(e, k) ==
  \/ ~e[k].has
  \/ e[k].expired
  \/ (e[k].add <= 0 /\ e[k].del <= 0)

DeleteExpectations(e, k) == [e EXCEPT ![k] = NoExp]

\* ------------------------------------------------------------ the pods
Ranks == 0..3
Scheduled(r) == r >= 1
Running(r) == r >= 2
Ready(r) == r = 3

\* controller.ActivePods.Less: unscheduled < scheduled, pending < running,
\* not ready < ready.
ActivePodsLess(a, b) ==
  IF Scheduled(podRank[a]) # Scheduled(podRank[b]) THEN ~Scheduled(podRank[a])
  ELSE IF Running(podRank[a]) # Running(podRank[b]) THEN ~Running(podRank[a])
  ELSE IF Ready(podRank[a]) # Ready(podRank[b]) THEN ~Ready(podRank[a])
  ELSE FALSE

\* The orders a pod list can come in: the store lists in no particular order.
Perms(S) ==
  {f \in [1..Cardinality(S) -> S] : \A i, j \in DOMAIN f : i # j => f[i] # f[j]}

\* sort.Sort(controller.ActivePods(pods)): any order with no inversion (the
\* sort is not stable).
SortActivePods(S) ==
  {f \in Perms(S) : \A i, j \in DOMAIN f : i < j => ~ActivePodsLess(f[j], f[i])}

\* podStore.Pods(rs.Namespace).List(selector): the pods of the store whose
\* labels the selector of ReplicaSet k matches.
PodList(k) == [p \in Pods |-> IF p \in rsStore[k].selects THEN podStore[p] ELSE "none"]

\* controller.FilterActivePods over the pod store's list.
FilterActivePods(store) == {p \in Pods : store[p] = "active"}

\* An object of the ReplicaSet store.
ReplicaSet(e, r, c, s) == [exists |-> e, replicas |-> r, created |-> c, selects |-> s]

\* The names of the ReplicaSets as strings compare: "rs1" < "rs2".
NameLess(a, b) == a = "rs1" /\ b = "rs2"

\* overlappingReplicaSets.Less: by creation timestamp, then by name.
overlappingReplicaSetsLess(a, b) ==
  IF rsStore[a].created = rsStore[b].created
  THEN NameLess(a, b)
  ELSE rsStore[a].created < rsStore[b].created

\* sort.Sort(overlappingReplicaSets(rss)): the orders of S with no inversion.
SortOverlapping(S) ==
  {f \in Perms(S) : \A i, j \in DOMAIN f : i < j => ~overlappingReplicaSetsLess(f[j], f[i])}

\* rsStore.GetPodReplicaSets(pod): the ReplicaSets whose selector matches the
\* pod's labels, in any order the store may list them; an error (here the
\* empty list) when there is none.
GetPodReplicaSets(p) == Perms({k \in Keys : rsStore[k].exists /\ p \in rsStore[k].selects})

\* A getPodReplicaSet that takes the first ReplicaSet as listed.
OverlappingNever(rss) == FALSE

\* getPodReplicaSet: "if len(rss) > 1", the list is sorted.
Overlapping(rss) == Len(rss) > 1

\* getPodReplicaSet: the ReplicaSets it can return for pod p, one for each
\* order of the store's list; "" is nil, no ReplicaSet selects the pod.
getPodReplicaSet(p) ==
  UNION {IF Len(rss) = 0 THEN {""}
         ELSE IF Overlapping(rss)
         THEN {f[1] : f \in SortOverlapping({rss[i] : i \in DOMAIN rss})}
         ELSE {rss[1]} : rss \in GetPodReplicaSets(p)}

NextPodState(s) ==
  CASE s = "none" -> "active"
    [] s = "active" -> "terminating"
    [] s = "terminating" -> "gone"
    [] OTHER -> "gone"

NoEvent == [type |-> "none", pod |-> 0, changed |-> FALSE, dt |-> FALSE]

\* The pod identities the API server can hand out for a pod made from the
\* template of ReplicaSet k: its labels are matched by the selector of k.
Unused(k) == {p \in rsStore[k].selects : podApi[p] = "none"}

\* The smallest of them.
FreshPod(k) == CHOOSE p \in Unused(k) : \A q \in Unused(k) : p <= q

\* ----------------------------------------------------------- the workers
Idle == [pc |-> "get", key |-> "", needsSync |-> FALSE, listed |-> FALSE, pods |-> {},
         toCreate |-> 0, toDelete |-> {}, creates |-> 0, deletes |-> 0,
         failed |-> 0, disturbed |-> FALSE, status |-> "none", reported |-> 0,
         ret |-> "none", quit |-> FALSE, got |-> [exists |-> FALSE, err |-> FALSE]]

InCycle(w, k) == wk[w].key = k /\ wk[w].pc \in {"manage", "calls", "status", "done"}

\* A pod event for key k was handled after a sync of k had checked the
\* expectations and before the worker went on to the next key.
Disturb(k) == [w \in Workers |-> IF InCycle(w, k) THEN [wk[w] EXCEPT !.disturbed = TRUE] ELSE wk[w]]

\* An enqueueReplicaSet that drops the key.
enqueueNothing(q, k) == q

\* enqueueReplicaSet: the key goes to the work queue.
enqueueReplicaSet(q, k) == QAdd(q, k)

\* A worker that marks the key done as soon as it has taken it, not when the
\* sync handler has returned.
WorkerGetDoneAtOnce(w) ==
  /\ wk[w].pc = "get"
  /\ Len(wq.queue) > 0
  /\ wq' = QDone(QGet(wq), Head(wq.queue))
  /\ wk' = [wk EXCEPT ![w].pc = "sync", ![w].key = Head(wq.queue)]
  /\ UNCHANGED <<exp, rsStore, podApi, podStore, notify, podRank, initActive, hist, faultyStore, run, pwVars, fnVars>>

\* A worker that does not look at quit.
AfterGetIgnoresQuit(quit) == "sync"

\* worker(): "if quit { return }", otherwise the sync handler is called.
AfterGet(quit) == IF quit THEN "get" ELSE "sync"

\* worker(): key, quit := queue.Get(), blocking while the queue is empty.
WorkerGet(w) ==
  /\ wk[w].pc = "get"
  /\ Len(wq.queue) > 0
  /\ wq' = QGet(wq)
  /\ wk' = [wk EXCEPT ![w].pc = AfterGet(FALSE), ![w].key = Head(wq.queue),
                      ![w].quit = FALSE]
  /\ UNCHANGED <<exp, rsStore, podApi, podStore, notify, podRank, initActive, hist, faultyStore, run, pwVars, fnVars>>

\* The queue has been shut down and holds nothing: Get returns at once, with
\* no key and the shutdown signal.
QShutDown(q) == run = "shutdown" /\ Len(q.queue) = 0

\* worker(): queue.Get() returns quit = true; the closure returns before the
\* deferred Done and the sync handler, and the loop calls Get again.
WorkerQuit(w) ==
  /\ wk[w].pc = "get"
  /\ QShutDown(wq)
  /\ wk' = [wk EXCEPT ![w].pc = AfterGet(TRUE), ![w].quit = TRUE]
  /\ UNCHANGED <<wq, exp, rsStore, podApi, podStore, notify, podRank, initActive, hist, faultyStore, run, pwVars, fnVars>>

\* worker(): the deferred queue.Done(key), once syncHandler has returned.
WorkerDone(w) ==
  /\ wk[w].pc = "done"
  /\ wq' = QDone(wq, wk[w].key)
  /\ wk' = [wk EXCEPT ![w] = Idle]
  /\ UNCHANGED <<exp, rsStore, podApi, podStore, notify, podRank, initActive, hist, faultyStore, run, pwVars, fnVars>>

\* A sync that manages the replicas whatever the expectations say.
AfterListAlways(needsSync) == "manage"

\* syncReplicaSet: if rsNeedsSync { manageReplicas } and then the status update.
AfterList(needsSync) == IF needsSync THEN "manage" ELSE "status"

\* A sync that never consults the ledger.
rsNeedsSyncAlways(k) == TRUE

\* syncReplicaSet: rsNeedsSync := rsc.expectations.SatisfiedExpectations(rsKey).
rsNeedsSync(k) == SatisfiedExpectations(exp, k)

\* rsStore.Store.GetByKey: the answers (exists, err) the store can give. A
\* failing lookup may or may not report the object.
GetByKey(k) ==
  {[exists |-> rsStore[k].exists, err |-> FALSE]}
    \cup (IF faultyStore THEN {[exists |-> e, err |-> TRUE] : e \in BOOLEAN} ELSE {})

\* A sync that takes every key for a ReplicaSet that exists.
DeletedNever(got) == FALSE

\* syncReplicaSet: if !exists, the ReplicaSet has been deleted.
Deleted(got) == ~got.exists

\* syncReplicaSet, from GetByKey to FilterActivePods.
\* SatisfiedExpectations is read before the pods are listed; listing reads
\* only the pod store and checking only the ledger, so the two reads are one
\* step here.
SyncLookup(w) ==
  LET k == wk[w].key IN
  /\ wk[w].pc = "sync"
  /\ \E got \in GetByKey(k) :
          IF Deleted(got)
          THEN /\ exp' = DeleteExpectations(exp, k)
               /\ wk' = [wk EXCEPT ![w].pc = "done", ![w].ret = "nil", ![w].got = got]
               /\ wq' = wq
          ELSE IF got.err
          THEN /\ wq' = QAdd(wq, k)
               /\ wk' = [wk EXCEPT ![w].pc = "done", ![w].ret = "err", ![w].got = got]
               /\ exp' = exp
          ELSE /\ wk' = [wk EXCEPT ![w].needsSync = rsNeedsSync(k),
                                   ![w].listed = TRUE,
                                   ![w].got = got,
                                   ![w].pods = FilterActivePods(PodList(k)),
                                   ![w].pc = AfterList(rsNeedsSync(k))]
               /\ UNCHANGED <<wq, exp>>
  /\ UNCHANGED <<rsStore, podApi, podStore, notify, podRank, initActive, hist, faultyStore, run, pwVars, fnVars>>

\* A diff that is not capped.
BurstCapNone(n) == n

\* manageReplicas: the diff is capped at burstReplicas.
BurstCap(n) == IF n > burstReplicas THEN burstReplicas ELSE n

\* A manageReplicas that never sorts.
NeedsSortNever(replicas) == FALSE

\* manageReplicas: no need to sort pods if we are about to delete all of them.
NeedsSort(replicas) == replicas # 0

\* manageReplicas' choice of the pods to delete: filteredPods[0..n-1] of the
\* list, sorted unless all pods go.
Victims(S, replicas, n) ==
  {{f[i] : i \in 1..n} : f \in IF NeedsSort(replicas) THEN SortActivePods(S) ELSE Perms(S)}

\* A manageReplicas that creates and deletes without recording what it expects.
ManageReplicasNoExpect(w) ==
  LET k == wk[w].key
      diff == Cardinality(wk[w].pods) - rsStore[k].replicas
  IN
  /\ wk[w].pc = "manage"
  /\ \/ /\ diff < 0
        /\ wk' = [wk EXCEPT ![w].pc = "calls", ![w].toCreate = BurstCap(-diff)]
     \/ /\ diff > 0
        /\ \E v \in Victims(wk[w].pods, rsStore[k].replicas, BurstCap(diff)) :
             wk' = [wk EXCEPT ![w].pc = "calls", ![w].toDelete = v]
     \/ /\ diff = 0
        /\ wk' = [wk EXCEPT ![w].pc = "status"]
  /\ UNCHANGED <<wq, exp, rsStore, podApi, podStore, notify, podRank, initActive, hist, faultyStore, run, pwVars, fnVars>>

\* manageReplicas up to the fan-out: the diff, its cap, the expectation.
ManageReplicas(w) ==
  LET k == wk[w].key
      diff == Cardinality(wk[w].pods) - rsStore[k].replicas
  IN
  /\ wk[w].pc = "manage"
  /\ \/ /\ diff < 0
        /\ exp' = ExpectCreations(exp, k, BurstCap(-diff))
        /\ wk' = [wk EXCEPT ![w].pc = "calls", ![w].toCreate = BurstCap(-diff)]
     \/ /\ diff > 0
        /\ exp' = ExpectDeletions(exp, k, BurstCap(diff))
        /\ \E v \in Victims(wk[w].pods, rsStore[k].replicas, BurstCap(diff)) :
             wk' = [wk EXCEPT ![w].pc = "calls", ![w].toDelete = v]
     \/ /\ diff = 0
        /\ wk' = [wk EXCEPT ![w].pc = "status"]
        /\ exp' = exp
  /\ UNCHANGED <<wq, rsStore, podApi, podStore, notify, podRank, initActive, hist, faultyStore, run, pwVars, fnVars>>

\* A failed CreatePods that leaves the ledger as it is.
CreateFailedForgotten(k) == exp

\* manageReplicas: a failed CreatePods is compensated by CreationObserved.
CreateFailed(k) == CreationObserved(exp, k)

\* manageReplicas: a failed DeletePod is compensated by DeletionObserved.
DeleteFailed(k) == DeletionObserved(exp, k)

\* One of the creating goroutines: CreatePods, and on failure CreationObserved.
\* The API server refuses when it has no identity left to hand out.
CreatePod(w) ==
  /\ wk[w].pc = "calls"
  /\ wk[w].toCreate > 0
  /\ \/ /\ Unused(wk[w].key) # {}
        /\ podApi' = [podApi EXCEPT ![FreshPod(wk[w].key)] = "active"]
        /\ wk' = [wk EXCEPT ![w].toCreate = @ - 1, ![w].creates = @ + 1]
        /\ exp' = exp
     \/ /\ exp' = CreateFailed(wk[w].key)
        /\ wk' = [wk EXCEPT ![w].toCreate = @ - 1, ![w].creates = @ + 1,
                            ![w].failed = @ + 1]
        /\ podApi' = podApi
  /\ UNCHANGED <<wq, rsStore, podStore, notify, podRank, initActive, hist, faultyStore, run, pwVars, fnVars>>

\* One of the deleting goroutines: DeletePod, and on failure DeletionObserved.
\* A successful delete is graceful: the pod gets its DeletionTimestamp.
\* Deleting a pod that is gone fails.
DeletePod(w, p) ==
  /\ wk[w].pc = "calls"
  /\ p \in wk[w].toDelete
  /\ \/ /\ podApi[p] \in {"active", "terminating"}
        /\ podApi' = [podApi EXCEPT ![p] = "terminating"]
        /\ wk' = [wk EXCEPT ![w].toDelete = @ \ {p}, ![w].deletes = @ + 1]
        /\ exp' = exp
        /\ hist' = hist
     \/ /\ exp' = DeleteFailed(wk[w].key)
        /\ wk' = [wk EXCEPT ![w].toDelete = @ \ {p}, ![w].deletes = @ + 1,
                            ![w].failed = @ + 1]
        /\ podApi' = podApi
        /\ hist' = [hist EXCEPT !.failed = hist.on]
  /\ UNCHANGED <<wq, rsStore, podStore, notify, podRank, initActive, faultyStore, run, pwVars, fnVars>>

\* A manageReplicas that does not wait for its goroutines.
JoinedEarly(w) == wk[w].pc \in {"status", "calls"}

\* manageReplicas has returned: it did nothing, or wait.Wait() has seen every
\* goroutine finish.
Joined(w) ==
  \/ wk[w].pc = "status"
  \/ wk[w].pc = "calls" /\ wk[w].toCreate = 0 /\ wk[w].toDelete = {}

\* A status update that reports the desired number of replicas.
StatusCountDesired(w) == rsStore[wk[w].key].replicas

\* syncReplicaSet: the count handed to updateReplicaCount, len(filteredPods).
StatusCount(w) == Cardinality(wk[w].pods)

\* syncReplicaSet: updateReplicaCount, requeueing the key when it fails, and
\* return nil either way.
UpdateStatus(w) ==
  /\ Joined(w)
  /\ \/ /\ wq' = wq
        /\ wk' = [wk EXCEPT ![w].pc = "done", ![w].ret = "nil", ![w].status = "ok",
                            ![w].reported = StatusCount(w)]
     \/ /\ wq' = enqueueReplicaSet(wq, wk[w].key)
        /\ wk' = [wk EXCEPT ![w].pc = "done", ![w].ret = "nil", ![w].status = "failed",
                            ![w].reported = StatusCount(w)]
  /\ UNCHANGED <<exp, rsStore, podApi, podStore, notify, podRank, initActive, hist, faultyStore, run, pwVars, fnVars>>

\* ------------------------------------------------- the pod event handlers
\* No history is kept.
NoHist == [on |-> FALSE, observed |-> <<>>, failed |-> FALSE]

\* The history of a run that starts: no call yet for any pod.
NewHist == [on |-> TRUE, observed |-> [p \in Pods |-> 0], failed |-> FALSE]

\* The history after a handler has called DeletionObserved for pod p.
Observe(p) == IF hist.on THEN [hist EXCEPT !.observed[p] = Min(@ + 1, 2)] ELSE hist

\* deletePod: DeletionObserved for the pod's ReplicaSet, and enqueue it.
deletePod(p) ==
  \E rs \in getPodReplicaSet(p) :
    IF rs = ""
    THEN UNCHANGED <<exp, wq, wk, hist>>
    ELSE /\ exp' = DeletionObserved(exp, rs)
         /\ wq' = enqueueReplicaSet(wq, rs)
         /\ wk' = Disturb(rs)
         /\ hist' = Observe(p)

\* An addPod that takes every new pod for a creation.
addPodCountsCreation(ev) ==
  \E rs \in getPodReplicaSet(ev.pod) :
    IF rs = ""
    THEN UNCHANGED <<exp, wq, wk, hist>>
    ELSE /\ exp' = CreationObserved(exp, rs)
         /\ wq' = enqueueReplicaSet(wq, rs)
         /\ wk' = Disturb(rs)
         /\ hist' = hist

\* addPod: a pod that is already being deleted counts as a deletion,
\* any other as a creation.
addPod(ev) ==
  IF ev.dt
  THEN deletePod(ev.pod)
  ELSE \E rs \in getPodReplicaSet(ev.pod) :
         IF rs = ""
         THEN UNCHANGED <<exp, wq, wk, hist>>
         ELSE /\ exp' = CreationObserved(exp, rs)
              /\ wq' = enqueueReplicaSet(wq, rs)
              /\ wk' = Disturb(rs)
              /\ hist' = hist

\* updatePod: nothing for an update that changes nothing, a deletion for a
\* pod with a DeletionTimestamp, otherwise only the enqueue (the labels of the
\* model's pods never change, so there is no old ReplicaSet to wake).
updatePod(ev) ==
  IF ~ev.changed
  THEN UNCHANGED <<exp, wq, wk, hist>>
  ELSE IF ev.dt
  THEN deletePod(ev.pod)
  ELSE /\ \E rs \in getPodReplicaSet(ev.pod) :
            wq' = IF rs = "" THEN wq ELSE enqueueReplicaSet(wq, rs)
       /\ UNCHANGED <<exp, wk, hist>>

\* The informer takes the next watch event of pod p: the store is updated
\* first, the handler is called afterwards.
DeliverPodEvent(p) ==
  /\ notify = NoEvent
  /\ podStore[p] # podApi[p]
  /\ podStore' = [podStore EXCEPT ![p] = NextPodState(@)]
  /\ notify' = [type |-> CASE podStore[p] = "none" -> "Add"
                           [] podStore[p] = "active" -> "Update"
                           [] OTHER -> "Delete",
                 pod |-> p, changed |-> TRUE, dt |-> podStore[p] = "active"]
  /\ UNCHANGED <<wq, exp, rsStore, podApi, wk, podRank, initActive, hist, faultyStore, run, pwVars, fnVars>>

\* An update event for a pod the store already holds in its current state: a
\* periodic resync (old and new equal) or a change of something else in the
\* pod. The store keeps its content, so the event is its handler's call.
PodUpdated(p) ==
  /\ notify = NoEvent
  /\ podStore[p] = podApi[p]
  /\ podStore[p] \in {"active", "terminating"}
  /\ \E ch \in BOOLEAN :
       updatePod([type |-> "Update", pod |-> p, changed |-> ch,
                  dt |-> podStore[p] = "terminating"])
  /\ UNCHANGED <<rsStore, podApi, podStore, notify, podRank, initActive, faultyStore, run, pwVars, fnVars>>

\* The informer lists the pods (its first list after a restart of the
\* controller manager, or a relist): the store takes pod p as the API server
\* has it now, and the handler is notified of the difference: an Add for a pod
\* the store did not hold, with the DeletionTimestamp the pod has by now, an
\* Update for a pod that changed, a Delete for a pod that is gone.
ListPod(p) ==
  /\ notify = NoEvent
  /\ podStore[p] # podApi[p]
  /\ podStore' = [podStore EXCEPT ![p] = podApi[p]]
  /\ notify' = IF podStore[p] = "none" /\ podApi[p] = "gone" THEN NoEvent
               ELSE [type |-> CASE podStore[p] = "none" -> "Add"
                                [] podApi[p] = "gone" -> "Delete"
                                [] OTHER -> "Update",
                     pod |-> p, changed |-> TRUE, dt |-> podApi[p] = "terminating"]
  /\ UNCHANGED <<wq, exp, rsStore, podApi, wk, podRank, initActive, hist, faultyStore, run, pwVars, fnVars>>

\* The informer notifies an update of a pod the store holds in its current
\* state: a periodic resync, with old and new equal, or a change of
\* something else in the pod.
ResyncPod(p) ==
  /\ notify = NoEvent
  /\ podStore[p] = podApi[p]
  /\ podStore[p] \in {"active", "terminating"}
  /\ \E ch \in BOOLEAN :
       notify' = [type |-> "Update", pod |-> p, changed |-> ch,
                  dt |-> podStore[p] = "terminating"]
  /\ UNCHANGED <<wq, exp, rsStore, podApi, podStore, wk, podRank, initActive, hist, faultyStore, run, pwVars, fnVars>>

\* The informer calls the handler registered for the event.
HandlePodEvent ==
  /\ notify # NoEvent
  /\ CASE notify.type = "Add" -> addPod(notify)
       [] notify.type = "Update" -> updatePod(notify)
       [] OTHER -> deletePod(notify.pod)
  /\ notify' = NoEvent
  /\ UNCHANGED <<rsStore, podApi, podStore, podRank, initActive, faultyStore, run, pwVars, fnVars>>

\* ------------------------------------------------------ the environment
\* The kubelet removes a pod whose grace period is over.
KubeletRemove(p) ==
  /\ podApi[p] = "terminating"
  /\ podApi' = [podApi EXCEPT ![p] = "gone"]
  /\ UNCHANGED <<wq, exp, rsStore, podStore, notify, wk, podRank, initActive, hist, faultyStore, run, pwVars, fnVars>>

\* An add, update, delete or resync event of a ReplicaSet: AddFunc, UpdateFunc
\* and DeleteFunc all enqueue the key.
ReplicaSetEvent(k) ==
  /\ wq' = enqueueReplicaSet(wq, k)
  /\ UNCHANGED <<exp, rsStore, podApi, podStore, notify, wk, podRank, initActive, hist, faultyStore, run, pwVars, fnVars>>

\* The ReplicaSet is deleted: the informer removes it from the store and calls
\* DeleteFunc, which enqueues the key.
DeleteReplicaSet(k) ==
  /\ rsStore[k].exists
  /\ rsStore' = [rsStore EXCEPT ![k].exists = FALSE]
  /\ wq' = enqueueReplicaSet(wq, k)
  /\ UNCHANGED <<exp, podApi, podStore, notify, wk, podRank, initActive, hist, faultyStore, run, pwVars, fnVars>>

\* The caller of Run closes stopCh.
CloseStopCh ==
  /\ run = "running"
  /\ run' = "stopped"
  /\ UNCHANGED <<wq, exp, rsStore, podApi, podStore, notify, wk, podRank, initActive, hist, faultyStore, pwVars, fnVars>>

\* Run: "<-stopCh" returns and rsc.queue.ShutDown() is called.
RunShutDown ==
  /\ run = "stopped"
  /\ run' = "shutdown"
  /\ UNCHANGED <<wq, exp, rsStore, podApi, podStore, notify, wk, podRank, initActive, hist, faultyStore, pwVars, fnVars>>

\* Time passes: the record of k becomes older than the expectations' TTL.
Expire(k) ==
  /\ exp[k].has
  /\ ~exp[k].expired
  /\ exp' = [exp EXCEPT ![k].expired = TRUE]
  /\ UNCHANGED <<wq, rsStore, podApi, podStore, notify, wk, podRank, initActive, hist, faultyStore, run, pwVars, fnVars>>


\* ---- podWorkers ----

\* UpdatePod: make(chan workUpdate, 1) and the goroutine that ranges over it.
NewChan == [buf |-> 0, closed |-> FALSE, g |-> "recv", work |-> 0]

\* A send of update n on channel c of cs (c = 0: the map has no channel, the
\* send is on a nil channel).
Send(cs, c, n) ==
  IF c = 0 \/ cs[c].closed \/ cs[c].buf # 0 THEN cs ELSE [cs EXCEPT ![c].buf = n]

\* How that send goes wrong: a nil or full channel blocks the sender, which
\* holds podLock; a closed channel panics.
SendFault(cs, c) ==
  IF c = 0 THEN "blocked"
  ELSE IF cs[c].closed THEN "panic"
  ELSE IF cs[c].buf # 0 THEN "blocked"
  ELSE "none"

\* An UpdatePod that hands every update to the goroutine.
MayDispatchAlways(working) == TRUE

\* UpdatePod: the update is sent only if the pod's worker is not working.
MayDispatch(working) == ~working

\* An UpdatePod that keeps the update that waits already.
UndeliveredKeepFirst(cur, n) == IF cur # 0 THEN cur ELSE n

\* UpdatePod: the new update replaces the one that waits.
Undelivered(cur, n) == n

\* The number of UpdatePod calls so far, over the pods of S.
RECURSIVE Submitted(_)
Submitted(S) ==
  IF S = {} THEN 0 ELSE LET u == CHOOSE x \in S : TRUE IN sent[u] + Submitted(S \ {u})

\* An UpdatePod that sends without marking the pod as working.
WorkingOnDispatchKept(was) == was

\* UpdatePod: "p.isWorking[pod.UID] = true" before the send.
WorkingOnDispatch(was) == TRUE

UpdatePod(u) ==
  LET n == sent[u] + 1
      exists == podUpdates[u] # 0
      cs == IF exists THEN chans[u] ELSE Append(chans[u], NewChan)
      c == IF exists THEN podUpdates[u] ELSE Len(cs)
      cur == lastUndeliveredWorkUpdate[u]
  IN
  /\ fault = "none"
  /\ Submitted(UIDs) < MaxUpdates
  /\ sent' = [sent EXCEPT ![u] = n]
  /\ podUpdates' = [podUpdates EXCEPT ![u] = c]
  /\ IF MayDispatch(isWorking[u])
     THEN /\ isWorking' = [isWorking EXCEPT ![u] = WorkingOnDispatch(@)]
          /\ chans' = [chans EXCEPT ![u] = Send(cs, c, n)]
          /\ fault' = SendFault(cs, c)
          /\ UNCHANGED <<lastUndeliveredWorkUpdate, superseded>>
     ELSE /\ lastUndeliveredWorkUpdate' =
               [lastUndeliveredWorkUpdate EXCEPT ![u] = Undelivered(cur, n)]
          /\ superseded' =
               [superseded EXCEPT ![u] = @ \cup (({cur, n} \ {Undelivered(cur, n)}) \ {0})]
          /\ chans' = [chans EXCEPT ![u] = cs]
          /\ UNCHANGED <<isWorking, fault>>
  /\ UNCHANGED <<synced, dropped, wq, exp, rsStore, podApi, podStore, notify, wk, podRank,
                 initActive, hist, faultyStore, run, fnVars>>

\* A sweep that forgets every pod with a channel, desired or not.
ForgottenAll(desiredPods) == {u \in UIDs : podUpdates[u] # 0}

\* ForgetNonExistingPodWorkers: the keys of podUpdates that are not desired.
Forgotten(desiredPods) == {u \in UIDs : podUpdates[u] # 0 /\ u \notin desiredPods}

\* A sweep that leaves the update that waits where it is.
ForgottenPendingKept(cur) == cur

\* ForgetNonExistingPodWorkers: the update that waits for a forgotten pod is
\* deleted.
ForgottenPending(cur) == 0

\* ForgetNonExistingPodWorkers(desiredPods): every channel of a pod that is
\* not desired is closed and removed, with the update that waits for it.
ForgetNonExistingPodWorkers(desiredPods) ==
  LET gone == Forgotten(desiredPods)
  IN
  /\ fault = "none"
  /\ gone # {}
  /\ chans' = [u \in UIDs |-> IF u \in gone
                               THEN [chans[u] EXCEPT ![podUpdates[u]].closed = TRUE]
                               ELSE chans[u]]
  /\ podUpdates' = [u \in UIDs |-> IF u \in gone THEN 0 ELSE podUpdates[u]]
  /\ lastUndeliveredWorkUpdate' =
       [u \in UIDs |-> IF u \in gone THEN ForgottenPending(lastUndeliveredWorkUpdate[u])
                                      ELSE lastUndeliveredWorkUpdate[u]]
  /\ UNCHANGED <<isWorking, sent, superseded, synced, dropped, fault, wq, exp, rsStore, podApi,
                 podStore, notify, wk, podRank, initActive, hist, faultyStore, run, fnVars>>

\* managePodLoop: "for newWork := range podUpdates" receives an update; a
\* closed channel still hands out what it buffers.
Receive(u, i) ==
  /\ fault = "none"
  /\ chans[u][i].g = "recv"
  /\ chans[u][i].buf # 0
  /\ chans' = [chans EXCEPT ![u][i] = [buf |-> 0, closed |-> @.closed, g |-> "cache",
                                      work |-> @.buf]]
  /\ UNCHANGED <<podUpdates, isWorking, lastUndeliveredWorkUpdate, sent, superseded,
                 synced, dropped, fault, wq, exp, rsStore, podApi, podStore, notify, wk, podRank,
                 initActive, hist, faultyStore, run, fnVars>>

\* managePodLoop: the range ends when the channel is closed and empty.
LoopExit(u, i) ==
  /\ fault = "none"
  /\ chans[u][i].g = "recv"
  /\ chans[u][i].buf = 0
  /\ chans[u][i].closed
  /\ chans' = [chans EXCEPT ![u][i].g = "exit"]
  /\ UNCHANGED <<podUpdates, isWorking, lastUndeliveredWorkUpdate, sent, superseded,
                 synced, dropped, fault, wq, exp, rsStore, podApi, podStore, notify, wk, podRank,
                 initActive, hist, faultyStore, run, fnVars>>

\* managePodLoop: the docker cache cannot be updated or listed; the iteration
\* returns without calling syncPodFn.
CacheError(u, i) ==
  /\ fault = "none"
  /\ chans[u][i].g = "cache"
  /\ chans' = [chans EXCEPT ![u][i].g = "check"]
  /\ dropped' = [dropped EXCEPT ![u] = @ \cup {chans[u][i].work}]
  /\ UNCHANGED <<podUpdates, isWorking, lastUndeliveredWorkUpdate, sent, superseded,
                 synced, fault, wq, exp, rsStore, podApi, podStore, notify, wk, podRank,
                 initActive, hist, faultyStore, run, fnVars>>

\* managePodLoop: syncPodFn is called with the update.
CallSyncPodFn(u, i) ==
  /\ fault = "none"
  /\ chans[u][i].g = "cache"
  /\ chans' = [chans EXCEPT ![u][i].g = "sync"]
  /\ synced' = [synced EXCEPT ![u] = Append(@, chans[u][i].work)]
  /\ UNCHANGED <<podUpdates, isWorking, lastUndeliveredWorkUpdate, sent, superseded, dropped,
                 fault, wq, exp, rsStore, podApi, podStore, notify, wk, podRank,
                 initActive, hist, faultyStore, run, fnVars>>

\* managePodLoop: syncPodFn returns, with an error or without.
SyncPodFnReturns(u, i) ==
  /\ fault = "none"
  /\ chans[u][i].g = "sync"
  /\ chans' = [chans EXCEPT ![u][i].g = "check"]
  /\ UNCHANGED <<podUpdates, isWorking, lastUndeliveredWorkUpdate, sent, superseded,
                 synced, dropped, fault, wq, exp, rsStore, podApi, podStore, notify, wk, podRank,
                 initActive, hist, faultyStore, run, fnVars>>

\* A checkForUpdates that never finds the update that waits.
HasUndeliveredNever(cur) == FALSE

\* checkForUpdates: "workUpdate, exists := p.lastUndeliveredWorkUpdate[uid]".
HasUndelivered(cur) == cur # 0

\* checkForUpdates, deferred by every iteration: the update that waits is
\* sent on the pod's channel, or the worker stops working.
checkForUpdates(u, i) ==
  LET back == [chans[u] EXCEPT ![i].g = "recv", ![i].work = 0]
      cur == lastUndeliveredWorkUpdate[u]
  IN
  /\ fault = "none"
  /\ chans[u][i].g = "check"
  /\ IF HasUndelivered(cur)
     THEN /\ chans' = [chans EXCEPT ![u] = Send(back, podUpdates[u], cur)]
          /\ fault' = SendFault(back, podUpdates[u])
          /\ lastUndeliveredWorkUpdate' = [lastUndeliveredWorkUpdate EXCEPT ![u] = 0]
          /\ UNCHANGED isWorking
     ELSE /\ chans' = [chans EXCEPT ![u] = back]
          /\ isWorking' = [isWorking EXCEPT ![u] = FALSE]
          /\ UNCHANGED <<lastUndeliveredWorkUpdate, fault>>
  /\ UNCHANGED <<podUpdates, sent, superseded, synced, dropped, wq, exp, rsStore, podApi,
                 podStore, notify, wk, podRank, initActive, hist, faultyStore, run, fnVars>>

\* ------------------------------------------- ShouldContainerBeRestarted
Policies == {"Always", "OnFailure", "Never"}
ContainerNames == {"c", "d"}

\* api.ContainerStatus: the container's name and State.Termination, nil for a
\* container that has not terminated (exitCode is then 0).
ContainerStatuses ==
  {st \in [name : ContainerNames, terminated : BOOLEAN, exitCode : 0..MaxExit] :
     ~st.terminated => st.exitCode = 0}

\* The lists of at most n statuses.
RECURSIVE StatusLists(_)
StatusLists(n) ==
  IF n = 0 THEN {<<>>}
  ELSE LET shorter == StatusLists(n - 1)
       IN shorter \cup {Append(l, st) : l \in {x \in shorter : Len(x) = n - 1},
                                         st \in ContainerStatuses}

\* "Get all dead container status": the positions in podStatus.ContainerStatuses
\* of the terminated statuses of the container, in the order of the list.
RECURSIVE DeadStatuses(_, _, _)
DeadStatuses(container, statuses, i) ==
  IF i > Len(statuses) THEN <<>>
  ELSE IF statuses[i].name = container /\ statuses[i].terminated
  THEN <<i>> \o DeadStatuses(container, statuses, i + 1)
  ELSE DeadStatuses(container, statuses, i + 1)

\* A check of the oldest run instead of the last.
LastRunOldest(resultStatus) == resultStatus[Len(resultStatus)]

\* "Check the exit code of last run": resultStatus[0].
LastRun(resultStatus) == resultStatus[1]

ShouldContainerBeRestarted(container, policy, statuses) ==
  LET resultStatus == DeadStatuses(container, statuses, 1) IN
  IF Len(resultStatus) > 0
  THEN IF policy = "Never" THEN FALSE
       ELSE IF policy = "OnFailure" /\ statuses[LastRun(resultStatus)].exitCode = 0
       THEN FALSE
       ELSE TRUE
  ELSE TRUE

\* The call: the dead containers lose their readiness, the result is returned.
CallShouldContainerBeRestarted ==
  /\ restart.pc = "call"
  /\ restart' = [restart EXCEPT
       !.pc = "returned",
       !.unready = {DeadStatuses(restart.container, restart.statuses, 1)[j] :
                      j \in DOMAIN DeadStatuses(restart.container, restart.statuses, 1)},
       !.result = ShouldContainerBeRestarted(restart.container, restart.policy,
                                             restart.statuses)]
  /\ UNCHANGED <<wq, exp, rsStore, podApi, podStore, notify, wk, podRank, initActive, hist,
                 faultyStore, run, pwVars, maxRetrial, oidc, chanWorkers>>

NoRestartCall == [pc |-> "none", container |-> "c", policy |-> "Always",
                  statuses |-> <<>>, unready |-> {}, result |-> TRUE]

\* ------------------------------------------------------------ NewOpenID
NoOidcCall == [pc |-> "none", i |-> 0, attempts |-> 0, fetched |-> FALSE,
               keysEndpoint |-> FALSE, result |-> "none"]

\* A loop that gives up one round late.
RetriesExhaustedLate(i) == i > maxRetrial

\* NewOpenID: "if i == maxRetrial", the constructor gives up.
RetriesExhausted(i) == i = maxRetrial

\* NewOpenID: the head of "for i := 0; i <= maxRetrial; i++" and the test
\* that ends it.
OidcLoop ==
  /\ oidc.pc = "loop"
  /\ oidc' = IF oidc.i > maxRetrial THEN [oidc EXCEPT !.pc = "config"]
             ELSE IF RetriesExhausted(oidc.i)
             THEN [oidc EXCEPT !.pc = "returned", !.result = "retries"]
             ELSE [oidc EXCEPT !.pc = "fetch"]
  /\ UNCHANGED <<wq, exp, rsStore, podApi, podStore, notify, wk, podRank, initActive, hist,
                 faultyStore, run, pwVars, restart, maxRetrial, chanWorkers>>

\* NewOpenID: oidc.FetchProviderConfig fails, or succeeds with a
\* configuration that has a keys endpoint or has none, which ends the loop.
OidcFetch ==
  /\ oidc.pc = "fetch"
  /\ \/ oidc' = [oidc EXCEPT !.pc = "sleep", !.attempts = @ + 1]
     \/ \E keys \in BOOLEAN :
          oidc' = [oidc EXCEPT !.pc = "config", !.attempts = @ + 1, !.fetched = TRUE,
                               !.keysEndpoint = keys]
  /\ UNCHANGED <<wq, exp, rsStore, podApi, podStore, notify, wk, podRank, initActive, hist,
                 faultyStore, run, pwVars, restart, maxRetrial, chanWorkers>>

\* NewOpenID: time.Sleep(retryBackoff) and the loop's i++.
OidcSleep ==
  /\ oidc.pc = "sleep"
  /\ oidc' = [oidc EXCEPT !.pc = "loop", !.i = @ + 1]
  /\ UNCHANGED <<wq, exp, rsStore, podApi, podStore, notify, wk, podRank, initActive, hist,
                 faultyStore, run, pwVars, restart, maxRetrial, chanWorkers>>

\* NewOpenID after the loop: errNoKeyEndpoint for a configuration without a
\* keys endpoint, otherwise oidc.NewClient, which fails or gives the client.
OidcClient ==
  /\ oidc.pc = "config"
  /\ IF ~oidc.keysEndpoint
     THEN oidc' = [oidc EXCEPT !.pc = "returned", !.result = "errNoKeyEndpoint"]
     ELSE \E r \in {"clientError", "authenticator"} :
            oidc' = [oidc EXCEPT !.pc = "returned", !.result = r]
  /\ UNCHANGED <<wq, exp, rsStore, podApi, podStore, notify, wk, podRank, initActive, hist,
                 faultyStore, run, pwVars, restart, maxRetrial, chanWorkers>>

\* ------------------------------------- podWorkers of pkg/kubelet/pod_workers.go
\* newPodWorkers: an empty podUpdates map.
NoChanWorkers == [podUpdates |-> [u \in UIDs |-> 0], chans |-> [u \in UIDs |-> <<>>],
                  sent |-> [u \in UIDs |-> 0]]

\* UpdatePod: "make(chan api.BoundPod, 5)".
podUpdatesBuffer == 5

\* The UpdatePod calls so far, over all UIDs.
RECURSIVE SumOver(_, _)
SumOver(f, S) ==
  IF S = {} THEN 0
  ELSE LET x == CHOOSE y \in S : TRUE IN f[x] + SumOver(f, S \ {x})

\* UpdatePod(pod) for UID u, under podLock: a UID without a channel gets a
\* channel made and a managePodLoop goroutine started on it; then the pod is
\* sent on the UID's channel, which blocks while the buffer is full.
ChanUpdatePod(u) ==
  LET cw == chanWorkers
      n == cw.sent[u] + 1
      fresh == cw.podUpdates[u] = 0
      cs == IF fresh THEN Append(cw.chans[u], [buf |-> <<>>, closed |-> FALSE, g |-> "range"])
            ELSE cw.chans[u]
      i == IF fresh THEN Len(cs) ELSE cw.podUpdates[u]
  IN /\ SumOver(cw.sent, UIDs) < MaxUpdates
     /\ Len(cs[i].buf) < podUpdatesBuffer
     /\ chanWorkers' = [podUpdates |-> [cw.podUpdates EXCEPT ![u] = i],
                        chans |-> [cw.chans EXCEPT ![u] = [cs EXCEPT ![i].buf = Append(@, n)]],
                        sent |-> [cw.sent EXCEPT ![u] = n]]
     /\ UNCHANGED <<wq, exp, rsStore, podApi, podStore, notify, wk, podRank, initActive, hist,
                    faultyStore, run, pwVars, restart, maxRetrial, oidc>>

\* ForgetNonExistingPodWorkers(desiredPods), under podLock: the channel of
\* every UID that is not desired is closed and deleted from the map.
ChanForgetNonExistingPodWorkers(desiredPods) ==
  LET cw == chanWorkers
      gone == {u \in UIDs : cw.podUpdates[u] # 0 /\ u \notin desiredPods}
  IN /\ chanWorkers' = [cw EXCEPT
          !.podUpdates = [u \in UIDs |-> IF u \in gone THEN 0 ELSE cw.podUpdates[u]],
          !.chans = [u \in UIDs |->
                       IF u \in gone
                       THEN [cw.chans[u] EXCEPT ![cw.podUpdates[u]].closed = TRUE]
                       ELSE cw.chans[u]]]
     /\ UNCHANGED <<wq, exp, rsStore, podApi, podStore, notify, wk, podRank, initActive, hist,
                    faultyStore, run, pwVars, restart, maxRetrial, oidc>>

\* managePodLoop, "for newPod := range podUpdates": the goroutine of UID u's
\* i-th channel receives the next buffered pod, or returns when the channel
\* is closed and drained; it waits on an open, empty channel.
ChanRange(u, i) ==
  LET ch == chanWorkers.chans[u][i]
  IN /\ ch.g = "range"
     /\ ch.buf # <<>> \/ ch.closed
     /\ chanWorkers' = [chanWorkers EXCEPT !.chans[u][i] =
          IF ch.buf # <<>> THEN [ch EXCEPT !.buf = Tail(@), !.g = "list"]
          ELSE [ch EXCEPT !.g = "returned"]]
     /\ UNCHANGED <<wq, exp, rsStore, podApi, podStore, notify, wk, podRank, initActive, hist,
                    faultyStore, run, pwVars, restart, maxRetrial, oidc>>

\* managePodLoop: containerRuntime.ListPods() fails and the iteration ends,
\* or it succeeds and syncPodFun is called.
ChanListPods(u, i) ==
  /\ chanWorkers.chans[u][i].g = "list"
  /\ \E err \in BOOLEAN :
       chanWorkers' = [chanWorkers EXCEPT !.chans[u][i].g = IF err THEN "range" ELSE "sync"]
  /\ UNCHANGED <<wq, exp, rsStore, podApi, podStore, notify, wk, podRank, initActive, hist,
                 faultyStore, run, pwVars, restart, maxRetrial, oidc>>

\* managePodLoop: syncPodFun returns, with an error or without, and the loop
\* goes on to the next pod.
ChanSyncReturns(u, i) ==
  /\ chanWorkers.chans[u][i].g = "sync"
  /\ chanWorkers' = [chanWorkers EXCEPT !.chans[u][i].g = "range"]
  /\ UNCHANGED <<wq, exp, rsStore, podApi, podStore, notify, wk, podRank, initActive, hist,
                 faultyStore, run, pwVars, restart, maxRetrial, oidc>>

\* One step of the managePodLoop goroutine of UID u's i-th channel.
managePodLoop(u, i) ==
  \/ ChanRange(u, i)
  \/ ChanListPods(u, i)
  \/ ChanSyncReturns(u, i)

\* Neither function is called, and these podWorkers have no pods.
NoCalls ==
  /\ restart = NoRestartCall
  /\ maxRetrial = MaxRetrials
  /\ oidc = NoOidcCall
  /\ chanWorkers = NoChanWorkers

\* newPodWorkers: empty maps.
InitPodWorkers ==
  /\ podUpdates = [u \in UIDs |-> 0]
  /\ isWorking = [u \in UIDs |-> FALSE]
  /\ lastUndeliveredWorkUpdate = [u \in UIDs |-> 0]
  /\ chans = [u \in UIDs |-> <<>>]
  /\ sent = [u \in UIDs |-> 0]
  /\ superseded = [u \in UIDs |-> {}]
  /\ synced = [u \in UIDs |-> <<>>]
  /\ dropped = [u \in UIDs |-> {}]
  /\ fault = "none"

InitRS ==
  /\ InitPodWorkers
  /\ initActive \in 0..MaxPods
  /\ podApi = [p \in 1..MaxPods |-> IF p <= initActive THEN "active" ELSE "none"]
  /\ wq = [queue |-> <<>>, dirty |-> {}, processing |-> {}]
  /\ exp = [k \in Keys |-> NoExp]
  /\ \E r \in 0..MaxReplicas :
       rsStore = [k \in Keys |-> IF k = "rs1" THEN ReplicaSet(TRUE, r, 1, Pods)
                                               ELSE ReplicaSet(FALSE, 0, 1, {})]
  /\ podStore = podApi
  /\ notify = NoEvent
  /\ wk = [w \in Workers |-> Idle]
  /\ podRank = [p \in Pods |-> 0]
  /\ faultyStore = FALSE
  /\ run = "running"
  /\ hist = NoHist
  /\ NoCalls

\* One step of worker w, anywhere in worker().
WorkerStep(w) ==
  \/ WorkerGet(w)
  \/ SyncLookup(w)
  \/ ManageReplicas(w)
  \/ CreatePod(w)
  \/ \E p \in Pods : DeletePod(w, p)
  \/ UpdateStatus(w)
  \/ WorkerDone(w)

\* One step of the informers, the kubelet or the API server's clients.
EnvStep ==
  \/ \E p \in Pods : DeliverPodEvent(p)
  \/ \E p \in Pods : PodUpdated(p)
  \/ HandlePodEvent
  \/ \E p \in Pods : KubeletRemove(p)
  \/ \E k \in Keys : ReplicaSetEvent(k)

\* The controller run with two workers, within the expectations' TTL.
NextRS ==
  \/ \E w \in Workers : WorkerStep(w)
  \/ EnvStep

SpecRS == InitRS /\ [][NextRS]_vars

\* The controller run with one worker, expectation records ageing past the TTL.
NextTTL ==
  \/ WorkerStep("w1")
  \/ EnvStep
  \/ \E k \in Keys : Expire(k)

SpecTTL == InitRS /\ [][NextTTL]_vars

\* One worker and a ReplicaSet that can be deleted at any time.
NextGone ==
  \/ WorkerStep("w1")
  \/ EnvStep
  \/ DeleteReplicaSet("rs1")

SpecGone == InitRS /\ [][NextGone]_vars

\* One worker, a ReplicaSet whose events keep coming and a ledger whose
\* records expire; the pod events may be late or lost, and calls may fail.
NextLive ==
  \/ WorkerStep("w1")
  \/ ReplicaSetEvent("rs1")
  \/ Expire("rs1")
  \/ \E p \in Pods : DeliverPodEvent(p)
  \/ HandlePodEvent
  \/ \E p \in Pods : KubeletRemove(p)

\* The worker is scheduled fairly, the key keeps being enqueued (every add,
\* update or resync event of the ReplicaSet enqueues it) and time passes.
SpecLive ==
  /\ InitRS
  /\ [][NextLive]_vars
  /\ WF_vars(WorkerStep("w1"))
  /\ WF_vars(ReplicaSetEvent("rs1"))
  /\ WF_vars(Expire("rs1"))

\* Two workers, ReplicaSet events, and a stop channel that is closed at some
\* time; Run and the workers are goroutines, scheduled fairly.
NextStop ==
  \/ \E w \in Workers : WorkerStep(w)
  \/ \E w \in Workers : WorkerQuit(w)
  \/ \E k \in Keys : ReplicaSetEvent(k)
  \/ CloseStopCh
  \/ RunShutDown

SpecStop ==
  /\ InitRS
  /\ [][NextStop]_vars
  /\ WF_vars(RunShutDown)
  /\ \A w \in Workers : WF_vars(WorkerStep(w) \/ WorkerQuit(w))

\* One worker and a ReplicaSet store whose lookups can fail (a store other
\* than the in-memory cache).
InitFaulty ==
  /\ InitPodWorkers
  /\ initActive \in 0..MaxPods
  /\ podApi = [p \in 1..MaxPods |-> IF p <= initActive THEN "active" ELSE "none"]
  /\ wq = [queue |-> <<>>, dirty |-> {}, processing |-> {}]
  /\ exp = [k \in Keys |-> NoExp]
  /\ \E r \in 0..MaxReplicas :
       rsStore = [k \in Keys |-> IF k = "rs1" THEN ReplicaSet(TRUE, r, 1, Pods)
                                               ELSE ReplicaSet(FALSE, 0, 1, {})]
  /\ podStore = podApi
  /\ notify = NoEvent
  /\ wk = [w \in Workers |-> Idle]
  /\ podRank = [p \in Pods |-> 0]
  /\ faultyStore = TRUE
  /\ run = "running"
  /\ hist = NoHist
  /\ NoCalls

NextFaulty ==
  \/ WorkerStep("w1")
  \/ EnvStep

SpecFaulty == InitFaulty /\ [][NextFaulty]_vars

\* Two ReplicaSets of one replica each, created at any times, whose selectors
\* match any pods, so that they may overlap or leave a pod to nobody; one
\* worker, and the pod events delivered in any order.
InitOwner ==
  /\ InitPodWorkers
  /\ initActive = 0
  /\ podApi = [p \in 1..MaxPods |-> "none"]
  /\ wq = [queue |-> <<>>, dirty |-> {}, processing |-> {}]
  /\ exp = [k \in Keys |-> NoExp]
  /\ \E c \in [Keys -> 1..MaxTime] : \E s \in [Keys -> SUBSET Pods] :
       rsStore = [k \in Keys |-> ReplicaSet(TRUE, 1, c[k], s[k])]
  /\ podStore = podApi
  /\ notify = NoEvent
  /\ wk = [w \in Workers |-> Idle]
  /\ podRank = [p \in Pods |-> 0]
  /\ faultyStore = FALSE
  /\ run = "running"
  /\ hist = NoHist
  /\ NoCalls

NextOwner ==
  \/ WorkerStep("w1")
  \/ \E k \in Keys : ReplicaSetEvent(k)
  \/ \E p \in Pods : DeliverPodEvent(p)
  \/ HandlePodEvent
  \/ \E p \in Pods : KubeletRemove(p)

SpecOwner == InitOwner /\ [][NextOwner]_vars

\* One worker syncing a ReplicaSet whose pods are in any stage: the pod store
\* holds initActive pods, unscheduled, pending, running or ready.
InitDel ==
  /\ InitPodWorkers
  /\ initActive \in 0..MaxPods
  /\ podApi = [p \in 1..MaxPods |-> IF p <= initActive THEN "active" ELSE "none"]
  /\ wq = [queue |-> <<>>, dirty |-> {}, processing |-> {}]
  /\ exp = [k \in Keys |-> NoExp]
  /\ \E r \in 0..MaxReplicas :
       rsStore = [k \in Keys |-> IF k = "rs1" THEN ReplicaSet(TRUE, r, 1, Pods)
                                               ELSE ReplicaSet(FALSE, 0, 1, {})]
  /\ podStore = podApi
  /\ notify = NoEvent
  /\ wk = [w \in Workers |-> Idle]
  /\ podRank \in [Pods -> Ranks]
  /\ \A p \in Pods : p > initActive => podRank[p] = 0
  /\ faultyStore = FALSE
  /\ run = "running"
  /\ hist = NoHist
  /\ NoCalls

NextDel ==
  \/ WorkerStep("w1")
  \/ ReplicaSetEvent("rs1")

SpecDel == InitDel /\ [][NextDel]_vars

\* The controller manager restarts: the API server has pods, active or
\* terminating, that the pod store has still to list; one worker.
InitRelist ==
  /\ InitPodWorkers
  /\ podApi \in [1..MaxPods -> {"none", "active", "terminating"}]
  /\ initActive = Cardinality({p \in Pods : podApi[p] = "active"})
  /\ wq = [queue |-> <<>>, dirty |-> {}, processing |-> {}]
  /\ exp = [k \in Keys |-> NoExp]
  /\ \E r \in 0..MaxReplicas :
       rsStore = [k \in Keys |-> IF k = "rs1" THEN ReplicaSet(TRUE, r, 1, Pods)
                                               ELSE ReplicaSet(FALSE, 0, 1, {})]
  /\ podStore = [p \in Pods |-> "none"]
  /\ notify = NoEvent
  /\ wk = [w \in Workers |-> Idle]
  /\ podRank = [p \in Pods |-> 0]
  /\ faultyStore = FALSE
  /\ run = "running"
  /\ hist = NoHist
  /\ NoCalls

NextRelist ==
  \/ WorkerStep("w1")
  \/ \E p \in Pods : ListPod(p)
  \/ \E p \in Pods : ResyncPod(p)
  \/ HandlePodEvent
  \/ \E p \in Pods : KubeletRemove(p)
  \/ ReplicaSetEvent("rs1")

SpecRelist == InitRelist /\ [][NextRelist]_vars

\* One worker and one ReplicaSet with at least as many active pods as it
\* wants, one pod more than the other runs have, so that two rounds of
\* deletions leave a pod; the history is kept.
InitGrace ==
  /\ InitPodWorkers
  /\ initActive \in 0..(MaxPods + 1)
  /\ podApi = [p \in 1..(MaxPods + 1) |-> IF p <= initActive THEN "active" ELSE "none"]
  /\ wq = [queue |-> <<>>, dirty |-> {}, processing |-> {}]
  /\ exp = [k \in Keys |-> NoExp]
  /\ \E r \in 0..Min(MaxReplicas, initActive) :
       rsStore = [k \in Keys |-> IF k = "rs1" THEN ReplicaSet(TRUE, r, 1, Pods)
                                               ELSE ReplicaSet(FALSE, 0, 1, {})]
  /\ podStore = podApi
  /\ notify = NoEvent
  /\ wk = [w \in Workers |-> Idle]
  /\ podRank = [p \in Pods |-> 0]
  /\ faultyStore = FALSE
  /\ run = "running"
  /\ hist = NewHist
  /\ NoCalls

\* Syncs, the watch events of the pods the controller deletes and the
\* kubelet removing them: no expiry, no other change of a pod.
NextGrace ==
  \/ WorkerStep("w1")
  \/ \E p \in Pods : DeliverPodEvent(p)
  \/ HandlePodEvent
  \/ \E p \in Pods : KubeletRemove(p)
  \/ ReplicaSetEvent("rs1")

SpecGrace == InitGrace /\ [][NextGrace]_vars

\* Podworkers without pods and a controller that has nothing to do.
InitNothing ==
  /\ InitPodWorkers
  /\ initActive = 0
  /\ podApi = [p \in 1..MaxPods |-> "none"]
  /\ wq = [queue |-> <<>>, dirty |-> {}, processing |-> {}]
  /\ exp = [k \in Keys |-> NoExp]
  /\ rsStore = [k \in Keys |-> ReplicaSet(FALSE, 0, 1, {})]
  /\ podStore = podApi
  /\ notify = NoEvent
  /\ wk = [w \in Workers |-> Idle]
  /\ podRank = [p \in Pods |-> 0]
  /\ faultyStore = FALSE
  /\ run = "running"
  /\ hist = NoHist

\* ShouldContainerBeRestarted called for any container, any restart policy
\* and any list of container statuses.
InitRestart ==
  /\ InitNothing
  /\ \E c \in ContainerNames : \E pol \in Policies : \E l \in StatusLists(MaxStatuses) :
       restart = [pc |-> "call", container |-> c, policy |-> pol, statuses |-> l,
                  unready |-> {}, result |-> TRUE]
  /\ maxRetrial = MaxRetrials
  /\ oidc = NoOidcCall
  /\ chanWorkers = NoChanWorkers

SpecRestart == InitRestart /\ [][CallShouldContainerBeRestarted]_vars

\* NewOpenID called with any value of maxRetrial; every step of the call is
\* taken in the end (the fetch returns, the sleep ends).
InitOidc ==
  /\ InitNothing
  /\ restart = NoRestartCall
  /\ maxRetrial \in 0..MaxRetrials
  /\ oidc = [NoOidcCall EXCEPT !.pc = "loop"]
  /\ chanWorkers = NoChanWorkers

NextOidc ==
  \/ OidcLoop
  \/ OidcFetch
  \/ OidcSleep
  \/ OidcClient

SpecOidc == InitOidc /\ [][NextOidc]_vars /\ WF_vars(NextOidc)

\* The podWorkers alone, beside a controller that has nothing to do.
InitPW ==
  /\ InitPodWorkers
  /\ initActive = 0
  /\ podApi = [p \in 1..MaxPods |-> "none"]
  /\ wq = [queue |-> <<>>, dirty |-> {}, processing |-> {}]
  /\ exp = [k \in Keys |-> NoExp]
  /\ rsStore = [k \in Keys |-> ReplicaSet(FALSE, 0, 1, {})]
  /\ podStore = podApi
  /\ notify = NoEvent
  /\ wk = [w \in Workers |-> Idle]
  /\ podRank = [p \in Pods |-> 0]
  /\ faultyStore = FALSE
  /\ run = "running"
  /\ hist = NoHist
  /\ NoCalls

PodLoopStep(u, i) ==
  \/ Receive(u, i)
  \/ LoopExit(u, i)
  \/ CacheError(u, i)
  \/ CallSyncPodFn(u, i)
  \/ SyncPodFnReturns(u, i)
  \/ checkForUpdates(u, i)

NextPW ==
  \/ \E u \in UIDs : UpdatePod(u)
  \/ \E desiredPods \in SUBSET UIDs : ForgetNonExistingPodWorkers(desiredPods)
  \/ \E u \in UIDs : \E i \in DOMAIN chans[u] : PodLoopStep(u, i)

SpecPW == InitPW /\ [][NextPW]_vars

\* The podWorkers of one pod (the pods share nothing but podLock), swept with
\* any set of desired pods.
NextPWFair ==
  \/ UpdatePod("u1")
  \/ \E desiredPods \in SUBSET UIDs : ForgetNonExistingPodWorkers(desiredPods)
  \/ \E i \in DOMAIN chans["u1"] : PodLoopStep("u1", i)

\* Every goroutine is scheduled fairly: a managePodLoop that can take a step
\* takes it, and a call of syncPodFn returns.
SpecPWFair ==
  /\ InitPW
  /\ [][NextPWFair]_vars
  /\ \A i \in 1..MaxUpdates :
       WF_vars(i \in DOMAIN chans["u1"] /\ PodLoopStep("u1", i))

\* The podWorkers of pkg/kubelet/pod_workers.go: UpdatePod calls for two
\* UIDs, sweeps with any desired set, and the goroutines in any order.
InitChan ==
  /\ InitNothing
  /\ NoCalls

NextChan ==
  \/ \E u \in UIDs : ChanUpdatePod(u)
  \/ \E desiredPods \in SUBSET UIDs : ChanForgetNonExistingPodWorkers(desiredPods)
  \/ \E u \in UIDs : \E i \in DOMAIN chanWorkers.chans[u] : managePodLoop(u, i)

SpecChan == InitChan /\ [][NextChan]_vars

\* ----------------------------------------------------------- properties
\* Worker w is inside the sync handler: Get has returned its key and
\* syncHandler has not returned yet.
InHandler(w) == wk[w].pc \in {"sync", "manage", "calls", "status"}

\* C1. Per-key mutual exclusion: two workers are never inside the sync
\* handler for the same key at the same time, whatever the order of the
\* enqueues by ReplicaSet events, pod events and the sync itself.
C1_PerKeyMutualExclusion ==
  \A a, b \in Workers : (a # b /\ InHandler(a) /\ InHandler(b)) => wk[a].key # wk[b].key

\* Two workers are inside the handler at once, for different keys, while one
\* of the keys has been added again in the meantime.
C1_Witness ==
  \E a, b \in Workers :
    /\ a # b /\ InHandler(a) /\ InHandler(b) /\ wk[a].key # wk[b].key
    /\ wk[a].key \in wq.dirty

\* The pods the API server has ever created for the controller.
Created == Cardinality({p \in Pods : podApi[p] # "none"}) - initActive

\* C2. No over-creation: with A <= R pods active at the start and no expiry
\* of expectations, the pods created for the ReplicaSet never number more
\* than R - A, in every interleaving of syncs and pod events (with no create
\* failure every CreatePods call creates a pod, so this is the number of calls).
C2_NoOverCreation ==
  initActive <= rsStore["rs1"].replicas => Created <= rsStore["rs1"].replicas - initActive

\* All R - A > 0 pods have been created, their Add events have been handled
\* and a later sync has found nothing to do.
C2_Witness ==
  /\ initActive < rsStore["rs1"].replicas
  /\ Created = rsStore["rs1"].replicas - initActive
  /\ \A p \in Pods : podStore[p] = podApi[p]
  /\ notify = NoEvent
  /\ \E w \in Workers : wk[w].pc = "done" /\ wk[w].key = "rs1" /\ wk[w].needsSync

\* C4. Idempotence while waiting: a sync that found SatisfiedExpectations
\* false never reaches manageReplicas: it has issued no CreatePods and no
\* DeletePod call, has none to issue, and has set no expectation.
C4_NoActionWhileWaiting ==
  \A w \in Workers :
    (wk[w].pc \notin {"get", "sync"} /\ ~wk[w].needsSync) =>
      /\ wk[w].pc \in {"status", "done"}
      /\ wk[w].creates = 0 /\ wk[w].deletes = 0
      /\ wk[w].toCreate = 0 /\ wk[w].toDelete = {}

\* A sync has found the expectations unsatisfied although the number of active
\* pods it listed differs from the desired one, and is about to update the status.
C4_Witness ==
  \E w \in Workers :
    /\ wk[w].pc = "status" /\ ~wk[w].needsSync
    /\ Cardinality(wk[w].pods) # rsStore[wk[w].key].replicas
    /\ ~SatisfiedExpectations(exp, wk[w].key)

\* What a sync that acts has to make up for: the difference between the
\* desired count and the active pods it listed, capped at the burst limit.
Need(w) ==
  LET d == rsStore[wk[w].key].replicas - Cardinality(wk[w].pods)
  IN Min(IF d < 0 THEN -d ELSE d, burstReplicas)

\* Worker w's sync has returned after acting in a cycle with no failed call
\* and no pod event.
CleanCycle(w) ==
  /\ wk[w].pc = "done" /\ wk[w].needsSync
  /\ wk[w].failed = 0 /\ ~wk[w].disturbed

C6_BurstCap ==
  \A w \in Workers :
    /\ wk[w].creates + wk[w].toCreate <= burstReplicas
    /\ wk[w].deletes + Cardinality(wk[w].toDelete) <= burstReplicas
    /\ (wk[w].pc = "calls" /\ wk[w].creates + wk[w].toCreate > 0) =>
         wk[w].creates + wk[w].toCreate =
           Min(rsStore[wk[w].key].replicas - Cardinality(wk[w].pods), burstReplicas)
    /\ (wk[w].pc = "manage" /\ wk[w].key = "rs1") =>
         /\ \A p \in Pods : podApi[p] # "none" =>
               podStore[p] # "none" /\ ~(notify.type = "Add" /\ notify.pod = p)
         /\ (\A p \in Pods : podApi[p] \in {"none", "active"}) =>
               wk[w].pods = {p \in Pods : podApi[p] = "active"}

\* The cycle after a capped one: the deficit exceeded the burst limit, the
\* first burst has been observed, and the rest (capped again) is being created.
C6_Witness ==
  \E w \in Workers :
    /\ wk[w].pc = "calls"
    /\ rsStore["rs1"].replicas - initActive > burstReplicas
    /\ Cardinality(wk[w].pods) = initActive + burstReplicas
    /\ wk[w].toCreate = Min(rsStore["rs1"].replicas - initActive - burstReplicas, burstReplicas)
    /\ exp["rs1"].add = wk[w].toCreate

\* C7. Deletion preference: the pods manageReplicas picks for deletion
\* number min(O - R, burst) and, when R # 0, none of them comes after a pod it
\* leaves alone in the order not-ready < ready, unscheduled < scheduled,
\* pending < running; so no ready pod is deleted while a pod that is not ready
\* is left.
C7_DeletionPreference ==
  \A w \in Workers :
    (wk[w].pc = "calls" /\ wk[w].deletes = 0 /\ wk[w].toDelete # {}) =>
      LET r == rsStore[wk[w].key].replicas
          V == wk[w].toDelete
          rest == wk[w].pods \ V
      IN /\ V \subseteq wk[w].pods
         /\ Cardinality(V) = Min(Cardinality(wk[w].pods) - r, burstReplicas)
         /\ r # 0 => \A v \in V, u \in rest :
               /\ Ready(podRank[v]) => Ready(podRank[u])
               /\ Running(podRank[v]) => Running(podRank[u])
               /\ Scheduled(podRank[v]) => Scheduled(podRank[u])

\* One replica is wanted, a ready pod and a pod that is not ready are active,
\* and the pod that is not ready is the one picked.
C7_Witness ==
  \E w \in Workers :
    /\ wk[w].pc = "calls" /\ wk[w].deletes = 0
    /\ rsStore[wk[w].key].replicas = 1
    /\ \E v \in wk[w].toDelete : ~Ready(podRank[v]) /\ Running(podRank[v])
    /\ \E u \in wk[w].pods \ wk[w].toDelete : Ready(podRank[u])

\* The goroutines of pod u that are inside an iteration of their loop, between
\* the receive and the end of checkForUpdates.
Busy(u) == {i \in DOMAIN chans[u] : chans[u][i].g \in {"cache", "sync", "check"}}

\* The channels of pod u that buffer an update.
Buffered(u) == {i \in DOMAIN chans[u] : chans[u][i].buf # 0}

\* The pod has one worker only: nothing of it was ever forgotten.
NeverForgotten(u) == \A i \in DOMAIN chans[u] : ~chans[u][i].closed

\* A step in which a goroutine of u finishes an iteration while an update waits.
Completes(u) ==
  /\ lastUndeliveredWorkUpdate[u] # 0
  /\ \E i \in DOMAIN chans[u] : chans[u][i].g = "check" /\ chans'[u][i].g = "recv"

\* The state half of C8: the update that waits is the last one submitted, no
\* update replaced while it waited is buffered, in a goroutine's hands or
\* passed to syncPodFn, and syncPodFn gets the updates in the order of their
\* submission, each at most once.
C8_LastWriteWins ==
  \A u \in UIDs :
    /\ lastUndeliveredWorkUpdate[u] # 0 =>
         isWorking[u] /\ lastUndeliveredWorkUpdate[u] = sent[u]
    /\ \A n \in superseded[u] :
         /\ \A j \in DOMAIN synced[u] : synced[u][j] # n
         /\ \A i \in DOMAIN chans[u] : chans[u][i].buf # n /\ chans[u][i].work # n
    /\ \A j, k \in DOMAIN synced[u] : j < k => synced[u][j] < synced[u][k]

C9_SingleFlight ==
  \A u \in UIDs :
    /\ Cardinality({i \in DOMAIN chans[u] : chans[u][i].g = "sync"}) <= 1
    /\ Cardinality(Busy(u)) + Cardinality(Buffered(u)) = (IF isWorking[u] THEN 1 ELSE 0)

\* A pod was forgotten while its sync ran and updated again: the old goroutine
\* is still in syncPodFn, the new channel is there, the new update waits.
C9_Witness ==
  \E u \in UIDs :
    /\ Len(chans[u]) >= 2
    /\ chans[u][1].closed /\ chans[u][1].g = "sync"
    /\ podUpdates[u] = 2
    /\ lastUndeliveredWorkUpdate[u] # 0

FreshAndWaiting(k) ==
  exp[k].has /\ ~exp[k].expired /\ (exp[k].add > 0 \/ exp[k].del > 0)

Mismatch == Cardinality(FilterActivePods(podStore)) # rsStore["rs1"].replicas

\* A sync of rs1 has got through manageReplicas to its create or delete calls.
Acting == \E w \in Workers : wk[w].key = "rs1" /\ wk[w].pc = "calls"

\* C13. No permanent stall: while the key keeps being enqueued, the worker is
\* scheduled and records expire, a ReplicaSet whose number of active pods
\* stays different from the desired one is acted on again and again, whether
\* calls fail or pod events never arrive.
C13_NoPermanentStall == []<>(~Mismatch \/ Acting)

\* The pod of an earlier cycle was created but its event has not arrived,
\* and a new cycle is about to create again: the record had to expire.
C13_Witness ==
  \E w \in Workers :
    /\ wk[w].pc = "calls" /\ wk[w].creates = 0 /\ wk[w].toCreate > 0
    /\ Created > 0
    /\ \A p \in Pods : podApi[p] # "none" /\ p > initActive => podStore[p] = "none"
    /\ notify = NoEvent

\* Worker w takes its step of syncReplicaSet for a key the store does not hold.
SyncsDeleted(w) ==
  /\ wk[w].pc = "sync"
  /\ ~rsStore[wk[w].key].exists
  /\ wk'[w] # wk[w]

\* C14. Deleted ReplicaSet: the sync of a key that is not in the ReplicaSet
\* store removes the key's expectation record, issues no create, delete or
\* status-update call, leaves the work queue as it is and returns nil.
C14_DeletedReplicaSet ==
  [][\A w \in Workers : SyncsDeleted(w) =>
       /\ exp' = [exp EXCEPT ![wk[w].key] = NoExp]
       /\ wq' = wq
       /\ podApi' = podApi
       /\ wk'[w].pc = "done" /\ wk'[w].ret = "nil"
       /\ ~wk'[w].listed /\ wk'[w].status = "none"
       /\ wk'[w].creates = 0 /\ wk'[w].deletes = 0
       /\ wk'[w].toCreate = 0 /\ wk'[w].toDelete = {}]_vars

\* rs1 was deleted after the controller had created pods for it: the sync has
\* returned nil without listing, and the record is gone.
C14_Witness ==
  \E w \in Workers :
    /\ ~rsStore["rs1"].exists /\ Created > 0
    /\ wk[w].pc = "done" /\ wk[w].key = "rs1" /\ ~wk[w].listed /\ wk[w].ret = "nil"
    /\ exp["rs1"] = NoExp
    /\ \E p \in Pods : podApi[p] = "active" /\ podStore[p] = "none"

\* C15. Status update: a sync that has listed the pods and returned has
\* attempted the status update, with the number of active pods it listed,
\* whether it created, deleted, found nothing to do or did not act because
\* of the expectations; a failed update has put the key back (it is dirty
\* while the worker still holds it) and the sync has returned nil all the
\* same. A sync that has not listed attempts no update.
C15_StatusUpdate ==
  \A w \in Workers :
    /\ (wk[w].pc = "done" /\ wk[w].listed) =>
         /\ wk[w].status \in {"ok", "failed"}
         /\ wk[w].reported = Cardinality(wk[w].pods)
         /\ wk[w].ret = "nil"
         /\ wk[w].status = "failed" => wk[w].key \in wq.dirty
    /\ wk[w].status # "none" => wk[w].pc = "done" /\ wk[w].listed

\* The status update failed after a cycle that did not act because of the
\* expectations, with one active pod listed: one was reported, the key is
\* dirty again.
C15_Witness ==
  \E w \in Workers :
    /\ wk[w].pc = "done" /\ wk[w].listed /\ ~wk[w].needsSync
    /\ wk[w].status = "failed" /\ wk[w].reported = 1
    /\ rsStore[wk[w].key].replicas # 1
    /\ wk[w].key \in wq.dirty

ForgetFrame(D, u) ==
  IF u \notin D /\ podUpdates[u] # 0
  THEN /\ podUpdates'[u] = 0
       /\ lastUndeliveredWorkUpdate'[u] = 0
       /\ chans'[u] = [chans[u] EXCEPT ![podUpdates[u]].closed = TRUE]
       /\ isWorking'[u] = isWorking[u]
  ELSE /\ podUpdates'[u] = podUpdates[u]
       /\ lastUndeliveredWorkUpdate'[u] = lastUndeliveredWorkUpdate[u]
       /\ chans'[u] = chans[u]
       /\ isWorking'[u] = isWorking[u]

\* C17. ForgetNonExistingPodWorkers(desiredPods): for every pod that has a
\* channel and is not desired, and for no other, the channel is closed, the
\* pod leaves podUpdates and the update that waits for it is deleted; channel,
\* waiting update and working state of every desired pod stay as they are.
\* (isWorking of a forgotten pod stays as it is too, and what its channel
\* buffers stays in the closed channel.)
C17_ForgetFrame ==
  [][\A D \in SUBSET UIDs :
       ForgetNonExistingPodWorkers(D) => \A u \in UIDs : ForgetFrame(D, u)]_vars

\* A sweep has forgotten u2, whose second update waited while the first was
\* synced, and has kept u1, whose second update still waits.
C17_Witness ==
  /\ podUpdates["u2"] = 0 /\ lastUndeliveredWorkUpdate["u2"] = 0
  /\ sent["u2"] = 2 /\ Len(chans["u2"]) = 1
  /\ chans["u2"][1].closed /\ chans["u2"][1].g = "sync" /\ chans["u2"][1].work = 1
  /\ isWorking["u2"]
  /\ podUpdates["u1"] = 1 /\ ~chans["u1"][1].closed
  /\ lastUndeliveredWorkUpdate["u1"] = 2 /\ isWorking["u1"]

\* C18. No send on a closed or missing channel: no send of UpdatePod or
\* checkForUpdates has gone wrong; podUpdates holds open channels only; and
\* whenever an update waits for a pod, the pod has a channel in podUpdates,
\* which is open, and empty when checkForUpdates comes to send on it.
C18_NoSendOnClosedOrMissing ==
  /\ fault = "none"
  /\ \A u \in UIDs :
       /\ podUpdates[u] # 0 =>
            podUpdates[u] \in DOMAIN chans[u] /\ ~chans[u][podUpdates[u]].closed
       /\ lastUndeliveredWorkUpdate[u] # 0 =>
            /\ podUpdates[u] # 0
            /\ (\E i \in DOMAIN chans[u] : chans[u][i].g = "check") =>
                 chans[u][podUpdates[u]].buf = 0

\* A pod was forgotten while its first update was synced; two more updates
\* came, the later replacing the earlier, and checkForUpdates of the old
\* goroutine has sent the later one on the pod's new channel.
C18_Witness ==
  \E u \in UIDs :
    /\ Len(chans[u]) = 2 /\ podUpdates[u] = 2
    /\ chans[u][1].closed /\ chans[u][1].g \in {"recv", "exit"}
    /\ superseded[u] = {2}
    /\ chans[u][2].buf = 3 /\ lastUndeliveredWorkUpdate[u] = 0

\* The updates of pod u that were passed to syncPodFn.
SyncedSet(u) == {synced[u][j] : j \in DOMAIN synced[u]}

\* Pod u was forgotten after its last update: UpdatePod gives the pod a
\* channel, and only ForgetNonExistingPodWorkers takes it away.
ForgottenSince(u) == sent[u] > 0 /\ podUpdates[u] = 0

\* A step in which a goroutine of u ends an iteration: checkForUpdates runs.
Finishes(u) ==
  \E i \in DOMAIN chans[u] : chans[u][i].g = "check" /\ chans'[u][i].g = "recv"

\* C19 as claimed, at rest: once the worker of a pod is idle (nothing waits,
\* nothing is buffered, no iteration runs), the last update submitted for the
\* pod, if the pod was not forgotten since, has been passed to syncPodFn.
C19_AsClaimed ==
  \A u \in UIDs :
    (sent[u] > 0 /\ ~ForgottenSince(u) /\ ~isWorking[u]) => sent[u] \in SyncedSet(u)

\* C19. The latest update is eventually handled: with the goroutines
\* scheduled fairly and every call of syncPodFn returning, the last update
\* submitted for a pod that is not forgotten afterwards is eventually received
\* by an iteration of managePodLoop, which passes it to syncPodFn unless the
\* docker cache cannot be updated or listed (the update is then dropped); and
\* at the end of an iteration, whether syncPodFn was called and whatever it
\* returned, the update that waits is sent to the pod's channel at once and
\* the pod stays working, and with no update waiting the pod becomes idle.
C19_LatestEventuallySynced ==
  /\ \A u \in UIDs : \A n \in 1..MaxUpdates :
       (sent[u] = n) ~>
         (sent[u] # n \/ ForgottenSince(u) \/ n \in SyncedSet(u) \cup dropped[u])
  /\ [][\A u \in UIDs : Finishes(u) =>
          IF lastUndeliveredWorkUpdate[u] # 0
          THEN /\ isWorking'[u]
               /\ lastUndeliveredWorkUpdate'[u] = 0
               /\ podUpdates[u] # 0
               /\ chans'[u][podUpdates[u]].buf = lastUndeliveredWorkUpdate[u]
          ELSE /\ ~isWorking'[u]
               /\ Busy(u)' = {} /\ Buffered(u)' = {}]_vars

\* Two updates came while the first was synced; the last of them was sent
\* when that iteration ended, was passed to syncPodFn, and the pod is idle.
C19_Witness ==
  \E u \in UIDs :
    /\ synced[u] = <<1, 3>> /\ superseded[u] = {2} /\ sent[u] = 3
    /\ dropped[u] = {}
    /\ podUpdates[u] # 0
    /\ ~isWorking[u]

\* Worker w waits in Get: it is at queue.Get() and the queue holds nothing.
WaitsInGet(w) == wk[w].pc = "get" /\ Len(wq.queue) = 0

\* C20. Queue shutdown: once stopCh is closed Run shuts the queue down; a
\* worker that waits in Get on the shut-down queue can take the shutdown
\* signal and does take it, unless a key comes first; the worker that takes
\* it is at Get again, with no key, without having called the sync handler
\* or Done: the queue is left as it was.
C20_QueueShutdown ==
  /\ (run = "stopped") ~> (run = "shutdown")
  /\ \A w \in Workers :
       /\ [](run = "shutdown" /\ WaitsInGet(w) => ENABLED WorkerQuit(w))
       /\ (run = "shutdown" /\ WaitsInGet(w)) ~> (wk[w].quit \/ wk[w].pc # "get")
       /\ [](wk[w].quit => wk[w] = [Idle EXCEPT !.quit = TRUE] /\ run = "shutdown")
  /\ [][\A w \in Workers : (~wk[w].quit /\ wk'[w].quit) =>
          /\ run = "shutdown" /\ WaitsInGet(w)
          /\ wq' = wq
          /\ wk'[w].pc = "get"]_vars

\* The queue was shut down while one worker was in a sync: the other has
\* taken the shutdown signal and is at Get again.
C20_Witness ==
  /\ run = "shutdown"
  /\ wk["w1"].quit /\ wk["w1"].pc = "get"
  /\ wk["w2"].pc = "calls"

\* The ReplicaSets that select pod p.
Selecting(p) == {k \in Keys : rsStore[k].exists /\ p \in rsStore[k].selects}

\* The ReplicaSet of Selecting(p) created first, by name among those created
\* at the same time; "" when none selects p.
Owner(p) ==
  IF Selecting(p) = {} THEN ""
  ELSE CHOOSE k \in Selecting(p) :
         \A j \in Selecting(p) \ {k} :
           \/ rsStore[k].created < rsStore[j].created
           \/ rsStore[k].created = rsStore[j].created /\ NameLess(k, j)

C22_KeyResolutionError ==
  [][\A w \in Workers :
       (wk[w].pc = "sync" /\ wk'[w].pc # "sync" /\ wk'[w].got.err) =>
         /\ wk'[w].pc = "done" /\ wk'[w].ret = "err"
         /\ wq' = QAdd(wq, wk[w].key)
         /\ exp' = exp]_vars

\* The container's terminated statuses, by position in the pod's status.
Dead(c, l) == {i \in DOMAIN l : l[i].name = c /\ l[i].terminated}

\* C23. Restart decision: ShouldContainerBeRestarted returns false exactly
\* when the container has a terminated status under its name and the restart
\* policy is Never, or is OnFailure and the first such status in the list has
\* exit code 0; in every other case it returns true.
C23_RestartDecision ==
  restart.pc = "returned" =>
    LET dead == Dead(restart.container, restart.statuses) IN
    (restart.result = FALSE) <=>
      /\ dead # {}
      /\ \/ restart.policy = "Never"
         \/ /\ restart.policy = "OnFailure"
            /\ \E i \in dead : /\ \A j \in dead : i <= j
                                /\ restart.statuses[i].exitCode = 0

\* The policy is OnFailure and the container ran twice: the run listed first
\* ended with exit code 0, the other did not; the container is not restarted.
C23_Witness ==
  /\ restart.pc = "returned" /\ restart.policy = "OnFailure"
  /\ Len(restart.statuses) = 2
  /\ Dead(restart.container, restart.statuses) = {1, 2}
  /\ restart.statuses[1].exitCode = 0 /\ restart.statuses[2].exitCode # 0
  /\ restart.result = FALSE

\* C24. Bounded discovery retry: NewOpenID fetches the provider configuration
\* at most maxRetrial times; after a fetch that succeeded it fetches no more;
\* when every attempt has failed it returns the error and no authenticator,
\* after maxRetrial attempts; and the call returns.
C24_BoundedRetry ==
  /\ [](/\ oidc.attempts <= maxRetrial
        /\ oidc.fetched => oidc.pc \in {"config", "returned"}
        /\ (oidc.pc = "returned" /\ ~oidc.fetched) =>
             oidc.result = "retries" /\ oidc.attempts = maxRetrial
        /\ oidc.result = "authenticator" => oidc.fetched /\ oidc.keysEndpoint)
  /\ [][oidc.fetched => oidc'.attempts = oidc.attempts]_vars
  /\ <>(oidc.pc = "returned")

\* maxRetrial is 3 and three fetches failed: the call has returned the error.
C24_Witness ==
  /\ maxRetrial = 3 /\ oidc.attempts = 3 /\ ~oidc.fetched
  /\ oidc.pc = "returned" /\ oidc.result = "retries"

\* C25. UpdatePod never blocks: wherever a send can come next, the channel
\* it goes to is empty. UpdatePod sends when the pod is not working, on the
\* pod's channel or on a new one; checkForUpdates sends when an update waits,
\* on the pod's channel, which is there. So no send has ever blocked its
\* sender, which holds podLock.
C25_NeverBlocks ==
  /\ fault # "blocked"
  /\ \A u \in UIDs :
       /\ (~isWorking[u] /\ podUpdates[u] # 0) => chans[u][podUpdates[u]].buf = 0
       /\ \A i \in DOMAIN chans[u] :
            (chans[u][i].g = "check" /\ lastUndeliveredWorkUpdate[u] # 0) =>
              /\ podUpdates[u] # 0
              /\ SendFault([chans[u] EXCEPT ![i].g = "recv"], podUpdates[u]) = "none"

\* The first update of a pod was synced and its worker went idle; the second
\* was sent on the same channel, which was empty, and is buffered there.
C25_Witness ==
  \E u \in UIDs :
    /\ Len(chans[u]) = 1 /\ podUpdates[u] = 1
    /\ sent[u] = 2 /\ synced[u] = <<1>> /\ superseded[u] = {}
    /\ chans[u][1].buf = 2 /\ chans[u][1].g = "recv"

\* The handler of the pending pod event is called.
Handles == notify # NoEvent /\ notify' = NoEvent

\* C27: a pod whose Add event already carries a DeletionTimestamp is handled
\* as a deletion (DeletionObserved and an enqueue for its ReplicaSet, never
\* CreationObserved), an update whose new object carries a DeletionTimestamp
\* causes DeletionObserved too, and an update whose old and new objects are
\* equal causes neither an enqueue nor a change of the ledger.
C27_DeletingPodEvents ==
  [][Handles =>
       /\ (notify.type \in {"Add", "Update"} /\ notify.changed /\ notify.dt) =>
            \A rs \in getPodReplicaSet(notify.pod) :
              /\ rs # ""
              /\ exp' = DeletionObserved(exp, rs)
              /\ exp'[rs].add = exp[rs].add
              /\ wq' = enqueueReplicaSet(wq, rs)
       /\ (notify.type = "Update" /\ ~notify.changed) =>
            wq' = wq /\ exp' = exp]_vars

\* The ReplicaSet wants as many pods as there are, so the controller deletes
\* none: a pod that was terminating when the controller started was listed and
\* its Add event handled, while a creation is still expected and the worker
\* has the key again.
C27_Witness ==
  \E p \in Pods :
    /\ rsStore["rs1"].replicas = Cardinality(Pods)
    /\ podStore[p] = "terminating" /\ notify = NoEvent
    /\ exp["rs1"].has /\ exp["rs1"].add = 1 /\ exp["rs1"].del = 0
    /\ "rs1" \in wq.dirty

\* C28: each pod removal is counted at most once: over a pod's lifetime (the
\* update that sets its DeletionTimestamp, later updates of the terminating
\* pod, the final delete event) the handlers call DeletionObserved at most
\* once for the pod.
C28_RemovalCountedOnce == \A p \in Pods : hist.observed[p] <= 1

\* The pods for which the controller has issued DeletePod: nobody else
\* deletes a pod.
DeletedPods == {p \in Pods : podApi[p] \in {"terminating", "gone"}}

\* C29: no over-deletion: with R desired replicas and A >= R pods active at
\* the start, no delete failure, no expiry and no external change of a pod,
\* the controller issues DeletePod for at most A - R distinct pods, graceful
\* deletions included.
C29_NoOverDeletion ==
  ~hist.failed => Cardinality(DeletedPods) <= initActive - rsStore["rs1"].replicas

\* C30: worker termination: once the work queue has been shut down and
\* drained, a worker's loop ends: the worker whose Get returns the shutdown
\* signal returns from worker(), it is not at Get again.
C30_WorkerTerminates ==
  [][\A w \in Workers :
       (QShutDown(wq) /\ wk[w].pc = "get" /\ ~wk[w].quit /\ wk'[w].quit) =>
         wk'[w].pc # "get"]_vars

\* The goroutines of UID u that are inside syncPodFun.
InSyncPodFun(u) ==
  {i \in DOMAIN chanWorkers.chans[u] : chanWorkers.chans[u][i].g = "sync"}

\* C26: in the channel-only podWorkers at most one syncPodFun invocation is
\* in progress for a UID at any time, also when the UID was forgotten while
\* its loop was syncing or had buffered updates and UpdatePod is then called
\* for it again.
C26_SingleFlight == \A u \in UIDs : Cardinality(InSyncPodFun(u)) <= 1

\* The elements of a sequence.
ToSet(q) == {q[i] : i \in DOMAIN q}

\* C10. Work-queue deduplication: a key is in the queue at most once; a key
\* being processed is never in the queue, however often it is added; the keys
\* waiting are exactly the dirty keys not being processed, so Done puts a key
\* added in flight back once.
C10_QueueDeduplicates ==
  /\ \A i, j \in DOMAIN wq.queue : i # j => wq.queue[i] # wq.queue[j]
  /\ ToSet(wq.queue) = wq.dirty \ wq.processing
  /\ \A w \in Workers : wk[w].pc # "get" => wk[w].key \in wq.processing

\* A key was added while in flight and has just been put back by Done, once,
\* while the other key is still held back as dirty.
C10_Witness ==
  /\ \E k \in Keys : k \in wq.processing /\ k \in wq.dirty
  /\ Len(wq.queue) = 1
  /\ \E w \in Workers : wk[w].pc = "get"

====
